---- MODULE Spec2Model ----
(***************************************************************************)
(* Model of malathair/ssm: src/src/malathair/ssm/ssm.py.                   *)
(*                                                                         *)
(* One invocation of main(): build_domain() resolves the host token, ssh() *)
(* assembles the argument vector (resolving the jump host on the way) and  *)
(* hands it to subprocess.run, and main() swallows what comes back.        *)
(*                                                                         *)
(* Python strings are sequences of one-character strings, so that find,    *)
(* slicing, "in", split and "+" are computed rather than assumed.          *)
(***************************************************************************)
EXTENDS Integers, Sequences, FiniteSets, TLC

\* Python's None, as a value of the same shape as a string (a sequence of
\* one-character strings never holds the four-character element "None").
None == <<"None">>

\* bool(x) for x a string or None: None and "" are falsy.
Truthy(x) == x # None /\ x # <<>>

-----------------------------------------------------------------------------
(* str methods *)

\* s.find(c): the 0-based index of the first c in s, or -1.
Find(s, c) ==
    IF \E i \in 1..Len(s) : s[i] = c
    THEN (CHOOSE i \in 1..Len(s) : s[i] = c /\ \A j \in 1..(i - 1) : s[j] # c) - 1
    ELSE -1

\* s[k::]
SliceFrom(s, k) == SubSeq(s, k + 1, Len(s))

\* c in s
Contains(s, c) == \E i \in 1..Len(s) : s[i] = c

\* s.split(c)
RECURSIVE Split(_, _)
Split(s, c) ==
    IF Find(s, c) = -1
    THEN <<s>>
    ELSE <<SubSeq(s, 1, Find(s, c))>> \o Split(SliceFrom(s, Find(s, c) + 1), c)

\* c * n
RECURSIVE Repeat(_, _)
Repeat(c, n) == IF n <= 0 THEN <<>> ELSE <<c>> \o Repeat(c, n - 1)

Digits == {"0", "1", "2", "3", "4", "5", "6", "7", "8", "9"}

DigitVal(c) ==
    CASE c = "0" -> 0 [] c = "1" -> 1 [] c = "2" -> 2 [] c = "3" -> 3
      [] c = "4" -> 4 [] c = "5" -> 5 [] c = "6" -> 6 [] c = "7" -> 7
      [] c = "8" -> 8 [] c = "9" -> 9

\* s.isascii() and s.isdigit(): non-empty and all decimal digits
IsDigits(s) == Len(s) > 0 /\ \A i \in 1..Len(s) : s[i] \in Digits

\* int(s, 10) for a string of digits
RECURSIVE IntOf(_)
IntOf(s) ==
    IF Len(s) = 0 THEN 0
    ELSE 10 * IntOf(SubSeq(s, 1, Len(s) - 1)) + DigitVal(s[Len(s)])

-----------------------------------------------------------------------------
(* ipaddress.IPv4Network(host), strict: which exception, if any, it raises *)

\* _parse_octet: the octet's value, or -1 where it raises ValueError
ParseOctet(o) ==
    IF ~IsDigits(o) THEN -1
    ELSE IF Len(o) > 3 THEN -1
    ELSE IF o # <<"0">> /\ o[1] = "0" THEN -1
    ELSE IF IntOf(o) > 255 THEN -1
    ELSE IntOf(o)

\* _ip_int_from_string: the four octets, or <<>> where it raises
\* AddressValueError
IpIntFromString(s) ==
    IF Len(s) = 0 THEN <<>>
    ELSE LET octets == Split(s, ".") IN
         IF Len(octets) # 4 THEN <<>>
         ELSE IF \E i \in 1..4 : ParseOctet(octets[i]) = -1 THEN <<>>
         ELSE [i \in 1..4 |-> ParseOctet(octets[i])]

\* how many of octet i's bits a prefix of length p covers
PrefixBits(p, i) ==
    LET b == p - 8 * (i - 1) IN IF b < 0 THEN 0 ELSE IF b > 8 THEN 8 ELSE b

\* octet i of the netmask of prefix length p
NetmaskOctet(p, i) == 256 - 2 ^ (8 - PrefixBits(p, i))

\* _prefix_from_prefix_string: the prefix length, or -1 where it raises
\* NetmaskValueError
PrefixFromPrefixString(m) ==
    IF ~IsDigits(m) THEN -1
    ELSE IF IntOf(m) > 32 THEN -1
    ELSE IntOf(m)

\* _prefix_from_ip_string: a dotted netmask, then a dotted hostmask; -1
\* where it raises NetmaskValueError
PrefixFromIpString(m) ==
    LET q == IpIntFromString(m) IN
    IF q = <<>> THEN -1
    ELSE IF \E p \in 0..32 : \A i \in 1..4 : q[i] = NetmaskOctet(p, i)
         THEN CHOOSE p \in 0..32 : \A i \in 1..4 : q[i] = NetmaskOctet(p, i)
    ELSE IF \E p \in 0..32 : \A i \in 1..4 : 255 - q[i] = NetmaskOctet(p, i)
         THEN CHOOSE p \in 0..32 : \A i \in 1..4 : 255 - q[i] = NetmaskOctet(p, i)
    ELSE -1

\* _make_netmask for a string argument
MakeNetmask(m) ==
    IF PrefixFromPrefixString(m) # -1 THEN PrefixFromPrefixString(m)
    ELSE PrefixFromIpString(m)

\* IPv4Network(host): "ok", or the class of the exception raised.
\* NetmaskValueError and the plain ValueError of the host-bits check are
\* ValueErrors but not AddressValueErrors.
IPv4Network(host) ==
    LET parts == Split(host, "/") IN
    IF Len(parts) > 2 THEN "AddressValueError"
    ELSE LET addr == IpIntFromString(parts[1]) IN
         IF addr = <<>> THEN "AddressValueError"
         ELSE LET p == IF Len(parts) = 1 THEN 32 ELSE MakeNetmask(parts[2]) IN
              IF p = -1 THEN "NetmaskValueError"
              ELSE IF \E i \in 1..4 : addr[i] % (2 ^ (8 - PrefixBits(p, i))) # 0
                   THEN "ValueError"
              ELSE "ok"

-----------------------------------------------------------------------------
(* socket.getaddrinfo(name, 0) *)

\* The idna codec's check of an ASCII name, run before the resolver is asked:
\* every label but the last must hold 1..63 characters, the last under 64.
IdnaOk(name) ==
    LET labels == Split(name, ".") IN
    /\ \A i \in 1..(Len(labels) - 1) : 0 < Len(labels[i]) /\ Len(labels[i]) < 64
    /\ Len(labels[Len(labels)]) < 64

\* "ok", or the class of the exception raised; dns is the set of names the
\* platform resolver resolves.
getaddrinfo(name, dns) ==
    IF ~IdnaOk(name) THEN "UnicodeError"
    ELSE IF name \in dns THEN "ok"
    ELSE "gaierror"

-----------------------------------------------------------------------------
(* print *)

\* One print call: the literal text, the string formatted into it and, for
\* print(openssh_command), the list.
Msg(text, arg, vec) == [text |-> text, arg |-> arg, vec |-> vec, whole |-> TRUE]

\* the two prints of an except block, made only when args.dev is set
DevPrints(args, text, arg, exc) ==
    IF args.dev THEN <<Msg(text, arg, <<>>), Msg("  - " \o exc, <<>>, <<>>)>>
    ELSE <<>>

-----------------------------------------------------------------------------
(* build_domain *)

\* How a call of build_domain ends: it returns value (a string or None), or
\* exc escapes it. host is the text it probed, queries the names it passed to
\* getaddrinfo, in order, and out what it printed; marks[k] is how much of out
\* was printed when lookup k was made.
Outcome(kind, value, exc, host, queries, out) ==
    [kind |-> kind, value |-> value, exc |-> exc, host |-> host,
     queries |-> queries, out |-> out, marks |-> [k \in 1..Len(queries) |-> 0]]

\* the marks of what follows n prints
Shift(marks, n) == [k \in 1..Len(marks) |-> marks[k] + n]

\* host = host_arg[host_arg.find("@") + 1::]
HostOf(host_arg) == SliceFrom(host_arg, Find(host_arg, "@") + 1)

\* for domain in domains: ... ; return None
RECURSIVE SuffixLoop(_, _, _, _, _)
SuffixLoop(host_arg, host, args, domains, dns) ==
    IF domains = <<>> THEN Outcome("return", None, "", host, <<>>, <<>>)
    ELSE LET name == host \o <<".">> \o Head(domains)
             r == getaddrinfo(name, dns)
         IN  IF r = "ok"
             THEN Outcome("return", host_arg \o <<".">> \o Head(domains), "", host,
                          <<name>>, <<>>)
             ELSE IF r = "gaierror"
             THEN LET rest == SuffixLoop(host_arg, host, args, Tail(domains), dns)
                  IN  [rest EXCEPT
                         !.queries = <<name>> \o @,
                         !.out = DevPrints(args, "Lookup for {} failed!", name, r) \o @,
                         !.marks = <<0>> \o Shift(@,
                             Len(DevPrints(args, "Lookup for {} failed!", name, r)))]
             ELSE Outcome("raise", None, r, host, <<name>>, <<>>)

\* seq[::-1]
Reverse(seq) == [i \in 1..Len(seq) |-> seq[Len(seq) + 1 - i]]

\* Variant of SuffixCompletion: the search list walked from its end.
SuffixCompletionReversed(host_arg, host, args, config, dns) ==
    SuffixLoop(host_arg, host, args, Reverse(config.domains), dns)

\* the loop over config.domains
SuffixCompletion(host_arg, host, args, config, dns) ==
    SuffixLoop(host_arg, host, args, config.domains, dns)

\* if "." in host: try getaddrinfo(host, 0) ...; then the loop
DirectProbe(host_arg, host, args, config, dns) ==
    IF Contains(host, ".")
    THEN LET r == getaddrinfo(host, dns) IN
         IF r = "ok" THEN Outcome("return", host_arg, "", host, <<host>>, <<>>)
         ELSE IF r = "gaierror"
         THEN LET rest == SuffixCompletion(host_arg, host, args, config, dns)
              IN  [rest EXCEPT
                     !.queries = <<host>> \o @,
                     !.out = DevPrints(args, "Lookup for {} failed!", host, r) \o @,
                     !.marks = <<0>> \o Shift(@,
                         Len(DevPrints(args, "Lookup for {} failed!", host, r)))]
         ELSE Outcome("raise", None, r, host, <<host>>, <<>>)
    ELSE SuffixCompletion(host_arg, host, args, config, dns)

\* Variant of IpProbe: the stripped host is returned for an IP literal, not
\* the raw token.
IpProbeStripped(host_arg, host, args, config, dns) ==
    IF IPv4Network(host) = "ok" THEN Outcome("return", host, "", host, <<>>, <<>>)
    ELSE IF IPv4Network(host) = "AddressValueError"
    THEN DirectProbe(host_arg, host, args, config, dns)
    ELSE Outcome("raise", None, IPv4Network(host), host, <<>>, <<>>)

\* try: ipaddress.IPv4Network(host); return host_arg
\* except ipaddress.AddressValueError: fall through to the lookups
IpProbe(host_arg, host, args, config, dns) ==
    LET r == IPv4Network(host) IN
    IF r = "ok" THEN Outcome("return", host_arg, "", host, <<>>, <<>>)
    ELSE IF r = "AddressValueError"
    THEN LET rest == DirectProbe(host_arg, host, args, config, dns)
         IN  [rest EXCEPT
                !.out = DevPrints(args, "Invalid IP Address!", <<>>, r) \o @,
                !.marks = Shift(@, Len(DevPrints(args, "Invalid IP Address!", <<>>, r)))]
    ELSE Outcome("raise", None, r, host, <<>>, <<>>)

build_domain(host_arg, args, config, dns) ==
    IpProbe(host_arg, HostOf(host_arg), args, config, dns)

-----------------------------------------------------------------------------
(* the string literals of ssh() *)

STR_ssh == <<"s", "s", "h">>
STR_p == <<"-", "p">>
STR_o == <<"-", "o">>
STR_StrictHostKeyChecking ==
    <<"S", "t", "r", "i", "c", "t", "H", "o", "s", "t", "K", "e",
      "y", "C", "h", "e", "c", "k", "i", "n", "g", "=", "n", "o">>
STR_PubkeyAuthentication ==
    <<"P", "u", "b", "k", "e", "y", "A", "u", "t", "h", "e",
      "n", "t", "i", "c", "a", "t", "i", "o", "n", "=", "n", "o">>
STR_J == <<"-", "J">>
STR_sshpass == <<"s", "s", "h", "p", "a", "s", "s">>
STR_e == <<"-", "e">>
STR_D == <<"-", "D">>

-----------------------------------------------------------------------------
(* get_jumphost and ssh *)

\* Variant of JumpHostArg: the override is ignored.
JumpHostArgConfigured(args, config) == config.jump_host

\* host = args.jumphost if args.jumphost else config.jump_host
JumpHostArg(args, config) ==
    IF Truthy(args.jumphost) THEN args.jumphost ELSE config.jump_host

\* if domain: return domain / else: print(...); return None
\* where bd is how build_domain(host, args, config) ended; an exception of
\* build_domain escapes get_jumphost too.
JumpHostResult(host, bd) ==
    IF bd.kind = "return" /\ ~Truthy(bd.value)
    THEN [bd EXCEPT
            !.value = None,
            !.out = @ \o <<Msg("Failed to find valid FQDN for jumphost \"{}\"",
                               host, <<>>)>>]
    ELSE bd

get_jumphost(args, config, dns) ==
    JumpHostResult(JumpHostArg(args, config),
                   build_domain(JumpHostArg(args, config), args, config, dns))

\* alt_user = False if domain.find("@") == -1 else True
AltUser(domain) == Find(domain, "@") # -1

\* Variant of Multiplier: no clamp.
MultiplierUnclamped(v) == v

\* multiplier = args.v if args.v < 4 else 3
Multiplier(v) == IF v < 4 THEN v ELSE 3

\* if args.v: openssh_command.append("-" + "v" * multiplier)
\* (args.v is None without -v; 0 stands for it, argparse's count never gives 0)
VerbosityArgs(args) ==
    IF args.v # 0 THEN <<<<"-">> \o Repeat("v", Multiplier(args.v))>> ELSE <<>>

\* if args.nopubkey: openssh_command.extend(["-o", "PubkeyAuthentication=no"])
NoPubkeyArgs(args) ==
    IF args.nopubkey THEN <<STR_o, STR_PubkeyAuthentication>> ELSE <<>>

\* the two prints of the deprecation warning
NoPubkeyPrints(args) ==
    IF args.nopubkey
    THEN <<Msg("Warning! Detected use of deprecated -o flag.", <<>>, <<>>),
           Msg("  - The behavior of this flag will be changed in a future release",
               <<>>, <<>>)>>
    ELSE <<>>

\* if args.jump or args.jumphost:
JumpInEffect(args) == args.jump \/ Truthy(args.jumphost)

\* Variant of UseSshpass: the user in the target is not looked at.
UseSshpassAnyUser(args, config, domain) == ~JumpInEffect(args) /\ config.sshpass

\* elif config.sshpass and not alt_user:
UseSshpass(args, config, domain) ==
    ~JumpInEffect(args) /\ config.sshpass /\ ~AltUser(domain)

\* Variant of TunnelArgs: the remote command is not looked at.
TunnelArgsWithCommand(args, config) ==
    IF args.tunnel THEN <<STR_D, config.tunnel_port>> ELSE <<>>

\* if args.tunnel and not args.command:
\*     openssh_command.extend(["-D", config.tunnel_port])
TunnelArgs(args, config) ==
    IF args.tunnel /\ ~Truthy(args.command) THEN <<STR_D, config.tunnel_port>> ELSE <<>>

\* if args.command: openssh_command.extend([args.command])
CommandArgs(args) == IF Truthy(args.command) THEN <<args.command>> ELSE <<>>

\* openssh_command = ["ssh", "-p", args.port]
ListStart(args) == <<STR_ssh, STR_p, args.port>>

\* the list after the verbosity step
ListWithVerbosity(args) == ListStart(args) \o VerbosityArgs(args)

\* openssh_command.extend(["-o", "StrictHostKeyChecking=no"])
ListWithOptions(args) == ListWithVerbosity(args) \o <<STR_o, STR_StrictHostKeyChecking>>

\* the list when the jump-host / sshpass step is reached
ListBeforeJump(args) == ListWithOptions(args) \o NoPubkeyArgs(args)

\* the list after the jump-host / sshpass step; jumphost is get_jumphost's
\* result where a jump host is in effect
AfterJump(args, config, domain, jumphost) ==
    IF JumpInEffect(args) THEN ListBeforeJump(args) \o <<STR_J, jumphost>>
    ELSE IF UseSshpass(args, config, domain)
    THEN <<STR_sshpass, STR_e>> \o ListBeforeJump(args)
    ELSE ListBeforeJump(args)

\* openssh_command as ssh() hands it to print or subprocess.run
BuildCommand(args, config, domain, jumphost) ==
    AfterJump(args, config, domain, jumphost) \o TunnelArgs(args, config)
        \o <<domain>> \o CommandArgs(args)

\* The values the list takes in ssh() before the jump-host / sshpass step,
\* each with what a Ctrl-C at that moment finds on stdout: the deprecation
\* warning is printed, whole or in part, between the options and the
\* PubkeyAuthentication step.
ListsBeforeJump(args, warning) ==
    {[list |-> l, out |-> <<>>] :
        l \in {<<>>, ListStart(args), ListWithVerbosity(args)}}
      \cup {[list |-> ListWithOptions(args), out |-> SubSeq(warning, 1, n)] :
              n \in 0..Len(warning)}
      \cup {[list |-> ListWithOptions(args),
             out |-> Append(SubSeq(warning, 1, n - 1), [warning[n] EXCEPT !.whole = FALSE])] :
              n \in 1..Len(warning)}
      \cup {[list |-> ListBeforeJump(args), out |-> warning]}

\* The values the list takes in ssh() from the jump-host / sshpass step on,
\* the last being BuildCommand.
ListsFromJump(args, config, domain, jumphost) ==
    { ListBeforeJump(args),
      AfterJump(args, config, domain, jumphost),
      AfterJump(args, config, domain, jumphost) \o TunnelArgs(args, config),
      AfterJump(args, config, domain, jumphost) \o TunnelArgs(args, config)
          \o <<domain>>,
      BuildCommand(args, config, domain, jumphost) }

\* no call of build_domain was made for a jump host
NoJump == Outcome("none", None, "", <<>>, <<>>, <<>>)

\* ssh(args, config, domain): how it ends.
\*   "run":    subprocess.run(cmd, check=True) is called
\*   "print":  args.dev, the list is printed instead
\*   "return": jump-host resolution gave None, ssh() returns early
\*   "raise":  an exception of build_domain (jump host) escapes
SshResult(kind, cmd, out, jh) == [kind |-> kind, cmd |-> cmd, out |-> out, jump |-> jh]

\* the tail of ssh(), from "if args.dev:", with the list built
SshRun(args, cmd, pre, jh) ==
    IF args.dev
    THEN SshResult("print", cmd, pre \o <<Msg("{}", <<>>, cmd)>>, jh)
    ELSE SshResult("run", cmd, pre, jh)

\* ssh() given jh, the result of get_jumphost (NoJump when it is not called)
SshWith(args, config, domain, jh) ==
    IF jh.kind = "raise"
    THEN SshResult("raise", ListBeforeJump(args), NoPubkeyPrints(args) \o jh.out, jh)
    ELSE IF jh.kind = "return" /\ ~Truthy(jh.value)
    THEN SshResult("return", ListBeforeJump(args), NoPubkeyPrints(args) \o jh.out, jh)
    ELSE SshRun(args, BuildCommand(args, config, domain, jh.value),
                NoPubkeyPrints(args) \o jh.out, jh)

ssh(args, config, domain, dns) ==
    SshWith(args, config, domain,
            IF JumpInEffect(args) THEN get_jumphost(args, config, dns) ELSE NoJump)

-----------------------------------------------------------------------------
(* the inputs of one invocation *)

\* longest domain search list tried
MaxDomains == 2
\* -v counts 1..MaxVerbosity are tried, and 100
MaxVerbosity == 4

DOM_corp == <<"c", "o", "r", "p">>
DOM_lan == <<"l", "a", "n">>
Domains == {DOM_corp, DOM_lan}

\* every search list of at most MaxDomains domains
DomainLists == UNION {[1..n -> Domains] : n \in 0..MaxDomains}

\* host tokens: bare, dotted, with one and with two "@", IPv4 addresses and
\* networks (valid, with host bits set, with a bad mask), the empty token
Tokens ==
    { <<"d", "b", "1">>,
      <<"u", "s", "e", "r", "@", "d", "b", "1">>,
      <<"a", "b", "@", "c", "d", "@", "d", "b", "1">>,
      <<"d", "b", "1", ".", "c", "o", "r", "p">>,
      <<"u", "s", "e", "r", "@", "d", "b", "1", ".", "c", "o", "r", "p">>,
      <<"g", "h", "o", "s", "t">>,
      <<"1", "0", ".", "0", ".", "0", ".", "5">>,
      <<"u", "s", "e", "r", "@", "1", "0", ".", "0", ".", "0", ".", "5">>,
      <<"a", "b", "@", "c", "d", "@", "1", "0", ".", "0", ".", "0", ".", "5">>,
      <<"1", "0", ".", "0", ".", "0", ".", "0", "/", "2", "4">>,
      <<"1", "0", ".", "0", ".", "0", ".", "5", "/", "2", "4">>,
      <<"u", "s", "e", "r", "@", "1", "0", ".", "0", ".", "0", ".", "5", "/", "2", "4">>,
      <<"1", "0", ".", "0", ".", "0", ".", "0", "/", "3", "3">>,
      <<>> }

\* names the platform resolver may or may not know
NAME_db1_corp == <<"d", "b", "1", ".", "c", "o", "r", "p">>
NAME_db1_lan == <<"d", "b", "1", ".", "l", "a", "n">>
NAME_db1_corp_lan == <<"d", "b", "1", ".", "c", "o", "r", "p", ".", "l", "a", "n">>
NAME_jump_corp == <<"j", "u", "m", "p", ".", "c", "o", "r", "p">>
NAME_gw_corp == <<"g", "w", ".", "c", "o", "r", "p">>

HOST_jump == <<"j", "u", "m", "p">>
HOST_gw == <<"g", "w">>
\* an address with host bits set under its prefix length
HOST_hostbits == <<"1", "0", ".", "0", ".", "0", ".", "5", "/", "2", "4">>
PORT_22 == <<"2", "2">>
PORT_2222 == <<"2", "2", "2", "2">>
PORT_1080 == <<"1", "0", "8", "0">>
CMD_ls == <<"l", "s">>

Verbosities == (0..MaxVerbosity) \cup {100}

\* argparse's defaults: nothing but the host given
DefaultArgs(host, dev) ==
    [host |-> host, command |-> None, dev |-> dev, jump |-> FALSE,
     jumphost |-> None, nopubkey |-> FALSE, port |-> PORT_22, tunnel |-> FALSE,
     v |-> 0]

\* Config(): the settings read from the configuration file
Settings(domains, sshpass) ==
    [domains |-> domains, jump_host |-> HOST_jump, ssh_port |-> PORT_22,
     sshpass |-> sshpass, tunnel_port |-> PORT_1080]

\* -j and -J are mutually exclusive (argparse refuses both)
JumpModes ==
    { [jump |-> FALSE, jumphost |-> None], [jump |-> TRUE, jumphost |-> None],
      [jump |-> FALSE, jumphost |-> <<>>], [jump |-> FALSE, jumphost |-> HOST_gw],
      [jump |-> FALSE, jumphost |-> HOST_hostbits] }

\* hosts of the runs that vary the options: bare, with a user, an address
BuildTokens == { <<"d", "b", "1">>, <<"u", "s", "e", "r", "@", "d", "b", "1">>, <<"1", "0", ".", "0", ".", "0", ".", "5">> }

\* exit statuses the ssh child may end with
ReturnCodes == {0, 1, 255}

-----------------------------------------------------------------------------
(* main *)

VARIABLES
    args,            \* the parsed command line
    config,          \* the settings
    dns,             \* the names the platform resolver resolves
    pc,              \* where main() is: build_domain, ssh, subprocess, exit
    primary,         \* how build_domain(args.host, ...) ended, once it has
    jump,            \* how build_domain ended for the jump host, once it has
    domain,          \* main's local: build_domain's result
    openssh_command, \* ssh()'s list, as far as it was built
    built,           \* ssh() finished the list (it got past the command step)
    stdout,          \* what was printed, in order
    lookups,         \* the names passed to getaddrinfo, in order
    run_calls,       \* the lists passed to subprocess.run
    returncode,      \* the child's exit status (-1: none)
    interrupted,     \* a KeyboardInterrupt was raised (Ctrl-C)
    exit_status      \* the program's exit status (-1: still running)

vars == <<args, config, dns, pc, primary, jump, domain, openssh_command, built, stdout,
          lookups, run_calls, returncode, interrupted, exit_status>>

\* the state main() starts in, given the inputs
Start(a, c, r) ==
    /\ args = a
    /\ config = c
    /\ dns = r
    /\ pc = "build_domain"
    /\ primary = NoJump
    /\ jump = NoJump
    /\ domain = None
    /\ openssh_command = <<>>
    /\ built = FALSE
    /\ stdout = <<>>
    /\ lookups = <<>>
    /\ run_calls = <<>>
    /\ returncode = -1
    /\ interrupted = FALSE
    /\ exit_status = -1

\* resolution in depth: every token, search list and resolver, default options
InitResolve ==
    \E h \in Tokens, dev \in BOOLEAN, ds \in DomainLists,
       r \in SUBSET {NAME_db1_corp, NAME_db1_lan, NAME_db1_corp_lan} :
        Start(DefaultArgs(h, dev), Settings(ds, TRUE), r)

\* command construction in depth: every combination of options, a few hosts
InitBuild ==
    \E h \in BuildTokens, c \in {None, <<>>, CMD_ls}, dev \in BOOLEAN,
       jm \in JumpModes, o \in BOOLEAN, p \in {PORT_22, PORT_2222}, t \in BOOLEAN,
       v \in Verbosities, sp \in BOOLEAN, r \in SUBSET {NAME_jump_corp, NAME_gw_corp} :
        Start([host |-> h, command |-> c, dev |-> dev, jump |-> jm.jump,
               jumphost |-> jm.jumphost, nopubkey |-> o, port |-> p, tunnel |-> t,
               v |-> v],
              Settings(<<DOM_corp>>, sp), {NAME_db1_corp} \cup r)

Init == InitResolve \/ InitBuild

\* main() returns, by whichever path: the interpreter exits with status 0
MainReturns == 0

\* print(f'Failed to find valid FQDN for "{args.host}"')
FailureMessage(a, bd) == Msg("Failed to find valid FQDN for \"{}\"", a.host, <<>>)

\* A KeyboardInterrupt that no except clause catches (it is raised inside an
\* except block): the interpreter dies by SIGINT, which a shell reports as 130.
KilledByInterrupt == 130

\* domain = build_domain(args.host, args, config); if domain: ... else: print
\* An escaping exception is caught by "except Exception as e: print(e)".
MainBuildDomain ==
    /\ pc = "build_domain"
    /\ \E bd \in {build_domain(args.host, args, config, dns)} :
       /\ primary' = bd
       /\ lookups' = lookups \o bd.queries
       /\ IF bd.kind = "raise"
          THEN /\ stdout' = stdout \o bd.out \o <<Msg(bd.exc, <<>>, <<>>)>>
               /\ pc' = "exit"
               /\ exit_status' = MainReturns
               /\ UNCHANGED domain
          ELSE IF Truthy(bd.value)
          THEN /\ stdout' = stdout \o bd.out
               /\ domain' = bd.value
               /\ pc' = "ssh"
               /\ UNCHANGED exit_status
          ELSE /\ stdout' = stdout \o bd.out \o <<FailureMessage(args, bd)>>
               /\ domain' = bd.value
               /\ pc' = "exit"
               /\ exit_status' = MainReturns
    /\ UNCHANGED <<args, config, dns, jump, openssh_command, built, run_calls, returncode,
                   interrupted>>

\* ssh(args, config, domain), up to the call of subprocess.run
MainSsh ==
    /\ pc = "ssh"
    /\ \E r \in {ssh(args, config, domain, dns)} :
       /\ jump' = r.jump
       /\ lookups' = lookups \o r.jump.queries
       /\ openssh_command' = r.cmd
       /\ built' = (r.kind \in {"run", "print"})
       /\ IF r.kind = "raise"
          THEN /\ stdout' = stdout \o r.out \o <<Msg(r.jump.exc, <<>>, <<>>)>>
               /\ pc' = "exit"
               /\ exit_status' = MainReturns
               /\ UNCHANGED run_calls
          ELSE IF r.kind = "run"
          THEN /\ stdout' = stdout \o r.out
               /\ run_calls' = Append(run_calls, r.cmd)
               /\ pc' = "subprocess"
               /\ UNCHANGED exit_status
          ELSE /\ stdout' = stdout \o r.out
               /\ pc' = "exit"
               /\ exit_status' = MainReturns
               /\ UNCHANGED run_calls
    /\ UNCHANGED <<args, config, dns, primary, domain, returncode, interrupted>>

\* Where Ctrl-C can cut a call short: <<k, j>>, with k lookups made and j
\* prints done, in the order the call makes them (lookup k comes after
\* marks[k] prints, and before the prints that follow it).
Cuts(bd) ==
    {c \in (0..Len(bd.queries)) \X (0..Len(bd.out)) :
        /\ c[2] >= (IF c[1] = 0 THEN 0 ELSE bd.marks[c[1]])
        /\ c[2] <= (IF c[1] < Len(bd.queries) THEN bd.marks[c[1] + 1] ELSE Len(bd.out))}

\* Is a print the next thing the call does after cut c?
PrintIsNext(bd, c) ==
    c[2] < (IF c[1] < Len(bd.queries) THEN bd.marks[c[1] + 1] ELSE Len(bd.out))

\* a print that Ctrl-C cut off: only a part of its text was written
CutOff(m) == [m EXCEPT !.whole = FALSE]

\* What is on stdout when Ctrl-C arrives after j prints of out: those j, and
\* if more was being printed, nothing or a part of it.
PrintedUpTo(out, j, more) ==
    {SubSeq(out, 1, j)}
      \cup (IF more THEN {Append(SubSeq(out, 1, j), CutOff(out[j + 1]))} ELSE {})

\* What is on stdout when Ctrl-C arrives during the print of m or just after
\* it: nothing, a part of m, or m whole.
PrintedOf(m) == PrintedUpTo(<<m>>, 0, TRUE) \cup {<<m>>}

\* "except KeyboardInterrupt: pass": main returns
CaughtInterrupt ==
    /\ interrupted' = TRUE
    /\ pc' = "exit"
    /\ exit_status' = MainReturns

\* Ctrl-C inside build_domain(args.host, ...), while a lookup waits or a print
\* blocks: the lookups and prints made so far stay, and it never returns.
ResolveInterrupted ==
    /\ pc = "build_domain"
    /\ \E bd \in {build_domain(args.host, args, config, dns)} :
        \E c \in Cuts(bd) :
            /\ lookups' = lookups \o SubSeq(bd.queries, 1, c[1])
            /\ \E o \in PrintedUpTo(bd.out, c[2], PrintIsNext(bd, c)) :
                   stdout' = stdout \o o
    /\ CaughtInterrupt
    /\ UNCHANGED <<args, config, dns, primary, jump, domain, openssh_command, built,
                   run_calls, returncode>>

\* Ctrl-C in main's print of the failure message or just after it,
\* build_domain having returned None: the message is missing, cut off or whole.
FailurePrintInterrupted ==
    /\ pc = "build_domain"
    /\ \E bd \in {build_domain(args.host, args, config, dns)} :
        /\ bd.kind = "return"
        /\ ~Truthy(bd.value)
        /\ primary' = bd
        /\ domain' = bd.value
        /\ lookups' = lookups \o bd.queries
        /\ \E o \in PrintedOf(FailureMessage(args, bd)) :
               stdout' = stdout \o bd.out \o o
    /\ CaughtInterrupt
    /\ UNCHANGED <<args, config, dns, jump, openssh_command, built, run_calls, returncode>>

\* Ctrl-C in ssh() before the jump-host / sshpass step: the list is as far
\* as it got, the deprecation warning printed whole, in part or not at all
SshInterrupted ==
    /\ pc = "ssh"
    /\ \E x \in ListsBeforeJump(args, NoPubkeyPrints(args)) :
        /\ openssh_command' = x.list
        /\ stdout' = stdout \o x.out
    /\ CaughtInterrupt
    /\ UNCHANGED <<args, config, dns, primary, jump, domain, built, lookups,
                   run_calls, returncode>>

\* Ctrl-C inside get_jumphost, while a lookup waits or a print blocks (the
\* failure message included): no list is handed on.
JumpInterrupted ==
    /\ pc = "ssh"
    /\ JumpInEffect(args)
    /\ \E jh \in {get_jumphost(args, config, dns)} :
        \E c \in Cuts(jh) :
            /\ lookups' = lookups \o SubSeq(jh.queries, 1, c[1])
            /\ \E o \in PrintedUpTo(jh.out, c[2], PrintIsNext(jh, c)) :
                   stdout' = stdout \o NoPubkeyPrints(args) \o o
    /\ openssh_command' = ListBeforeJump(args)
    /\ CaughtInterrupt
    /\ UNCHANGED <<args, config, dns, primary, jump, domain, built, run_calls,
                   returncode>>

\* Ctrl-C in print(openssh_command) (args.dev) or just after it: the list is
\* built, its print missing, cut off or whole
CommandPrintInterrupted ==
    /\ pc = "ssh"
    /\ \E r \in {ssh(args, config, domain, dns)} :
        /\ r.kind = "print"
        /\ jump' = r.jump
        /\ lookups' = lookups \o r.jump.queries
        /\ openssh_command' = r.cmd
        /\ built' = TRUE
        /\ \E o \in PrintedOf(r.out[Len(r.out)]) :
               stdout' = stdout \o SubSeq(r.out, 1, Len(r.out) - 1) \o o
    /\ CaughtInterrupt
    /\ UNCHANGED <<args, config, dns, primary, domain, run_calls, returncode>>

\* Ctrl-C in ssh() after get_jumphost has returned and before the list is
\* printed or run: on its way out after a jump host that did not resolve, or
\* after any of the steps that extend the list, which is left as far as it got
SshEndInterrupted ==
    /\ pc = "ssh"
    /\ \E r \in {ssh(args, config, domain, dns)} :
        /\ r.kind \in {"return", "run", "print"}
        /\ jump' = r.jump
        /\ lookups' = lookups \o r.jump.queries
        /\ stdout' = stdout \o NoPubkeyPrints(args) \o r.jump.out
        /\ \E l \in (IF r.kind = "return" THEN {r.cmd}
                     ELSE ListsFromJump(args, config, domain, r.jump.value)) :
            /\ openssh_command' = l
            /\ built' = (r.kind # "return" /\ l = r.cmd)
    /\ CaughtInterrupt
    /\ UNCHANGED <<args, config, dns, primary, domain, run_calls, returncode>>

\* subprocess.run(openssh_command, check=True): the child ends with rc. A
\* non-zero rc raises CalledProcessError, which main catches: it prints the
\* return code if args.dev, and passes.
ChildExits ==
    /\ pc = "subprocess"
    /\ \E rc \in ReturnCodes :
        /\ returncode' = rc
        /\ stdout' = IF rc # 0 /\ args.dev
                     THEN stdout \o <<Msg("{returncode}", <<>>, <<>>)>>
                     ELSE stdout
    /\ pc' = "exit"
    /\ exit_status' = MainReturns
    /\ UNCHANGED <<args, config, dns, primary, jump, domain, openssh_command, built, lookups,
                   run_calls, interrupted>>

\* Ctrl-C while the child runs: "except KeyboardInterrupt: pass"
ChildInterrupted ==
    /\ pc = "subprocess"
    /\ CaughtInterrupt
    /\ UNCHANGED <<args, config, dns, primary, jump, domain, openssh_command, built, stdout,
                   lookups, run_calls, returncode>>

\* subprocess.run cannot start the program (no ssh or sshpass installed):
\* FileNotFoundError, caught by "except Exception as e: print(e)"
ExecFails ==
    /\ pc = "subprocess"
    /\ stdout' = stdout \o <<Msg("FileNotFoundError", <<>>, <<>>)>>
    /\ pc' = "exit"
    /\ exit_status' = MainReturns
    /\ UNCHANGED <<args, config, dns, primary, jump, domain, openssh_command, built, lookups,
                   run_calls, returncode, interrupted>>

\* Ctrl-C in "except Exception as e: print(e)": raised inside the except
\* block, the KeyboardInterrupt is caught by no clause of main's try and
\* ends the program, as does one that arrives just after the print, still
\* inside the block; the exception's message is missing, cut off or whole.
HandlerInterrupted ==
    /\ \/ /\ pc = "build_domain"
          /\ \E bd \in {build_domain(args.host, args, config, dns)} :
              /\ bd.kind = "raise"
              /\ primary' = bd
              /\ lookups' = lookups \o bd.queries
              /\ \E o \in PrintedOf(Msg(bd.exc, <<>>, <<>>)) :
                     stdout' = stdout \o bd.out \o o
          /\ UNCHANGED <<jump, openssh_command>>
       \/ /\ pc = "ssh"
          /\ \E r \in {ssh(args, config, domain, dns)} :
              /\ r.kind = "raise"
              /\ jump' = r.jump
              /\ openssh_command' = r.cmd
              /\ lookups' = lookups \o r.jump.queries
              /\ \E o \in PrintedOf(Msg(r.jump.exc, <<>>, <<>>)) :
                     stdout' = stdout \o r.out \o o
          /\ UNCHANGED primary
       \/ /\ pc = "subprocess"
          /\ \E o \in PrintedOf(Msg("FileNotFoundError", <<>>, <<>>)) :
                 stdout' = stdout \o o
          /\ UNCHANGED <<primary, jump, openssh_command, lookups>>
    /\ interrupted' = TRUE
    /\ pc' = "exit"
    /\ exit_status' = KilledByInterrupt
    /\ UNCHANGED <<args, config, dns, domain, built, run_calls, returncode>>

Next ==
    \/ MainBuildDomain \/ ResolveInterrupted \/ FailurePrintInterrupted
    \/ MainSsh \/ SshInterrupted \/ JumpInterrupted \/ CommandPrintInterrupted
    \/ SshEndInterrupted
    \/ ChildExits \/ ChildInterrupted \/ ExecFails
    \/ HandlerInterrupted

Spec == Init /\ [][Next]_vars

-----------------------------------------------------------------------------
(* Properties                                                              *)

\* the jump host asked for: the override if given, else the configured one
WantedJumpHost ==
    IF args.jumphost \notin {None, <<>>} THEN args.jumphost ELSE config.jump_host

\* the calls of build_domain made so far, each with the token it was given
Calls ==
    {c \in { [token |-> args.host, bd |-> primary],
             [token |-> WantedJumpHost, bd |-> jump] } : c.bd.kind # "none"}

\* ssh() was entered and has ended (by a return, an exception or Ctrl-C)
SshRan == pc \in {"subprocess", "exit"} /\ primary.kind = "return" /\ primary.value # None

\* ssh() built a command vector: it finished the list
Built == SshRan /\ built

\* the positions of x in the vector
Positions(vec, x) == {i \in 1..Len(vec) : vec[i] = x}


Last(seq) == seq[Len(seq)]

\* the candidates of suffix completion, in list order
Candidates(host) ==
    [i \in 1..Len(config.domains) |-> host \o <<".">> \o config.domains[i]]

\* the lookups of a call that came after the direct one
SuffixQueries(bd) ==
    IF Contains(bd.host, ".") THEN Tail(bd.queries) ELSE bd.queries

\* the host is no IPv4 literal and did not resolve directly
SuffixCase(bd) ==
    /\ IPv4Network(bd.host) = "AddressValueError"
    /\ Contains(bd.host, ".") => (bd.queries # <<>> /\ bd.queries[1] \notin dns)

\* candidate k is the first that resolves, the earlier ones being refused by
\* the resolver
FirstResolving(host, k) ==
    /\ Candidates(host)[k] \in dns
    /\ \A j \in 1..(k - 1) : getaddrinfo(Candidates(host)[j], dns) = "gaierror"

\* C1: in every call of build_domain whose host is no IPv4 literal and did not
\* resolve directly, the lookups of suffix completion are host.d1, host.d2, ...
\* in list order; where dk is the first domain that resolves, exactly the
\* first k candidates were looked up and the result is the raw token (prefix
\* kept) followed by "." and dk.
C1_SuffixCompletionInOrder ==
    \A c \in Calls :
        SuffixCase(c.bd) =>
            /\ \E n \in 0..Len(config.domains) :
                   SuffixQueries(c.bd) = SubSeq(Candidates(c.bd.host), 1, n)
            /\ \A k \in 1..Len(config.domains) :
                   FirstResolving(c.bd.host, k) =>
                       /\ SuffixQueries(c.bd) = SubSeq(Candidates(c.bd.host), 1, k)
                       /\ c.bd.kind = "return"
                       /\ c.bd.value = c.token \o <<".">> \o config.domains[k]

\* C1 witness: a token with a user prefix, two domains, the first refused and
\* the second resolving
C1_Witness ==
    /\ primary.kind = "return"
    /\ Contains(args.host, "@")
    /\ Len(config.domains) = 2
    /\ config.domains[1] # config.domains[2]
    /\ Len(primary.queries) = 2
    /\ FirstResolving(primary.host, 2)
    /\ primary.value = args.host \o <<".">> \o config.domains[2]

\* C2: in every call of build_domain whose host parses as an IPv4 address or
\* network, the raw token is returned unchanged and getaddrinfo is not called.
C2_IpLiteralUnchangedNoLookup ==
    \A c \in Calls :
        IPv4Network(c.bd.host) = "ok" =>
            /\ c.bd.kind = "return"
            /\ c.bd.value = c.token
            /\ c.bd.queries = <<>>

\* C2 witness: an address behind a user prefix went through build_domain, and
\* no lookup was made in the invocation
C2_Witness ==
    /\ primary.kind = "return"
    /\ Contains(args.host, "@")
    /\ IPv4Network(primary.host) = "ok"
    /\ primary.value = args.host
    /\ domain = args.host
    /\ lookups = <<>>

\* the message main prints for a failed resolution names x
FailureNames(x) ==
    /\ stdout # <<>>
    /\ Last(stdout).text = "Failed to find valid FQDN for \"{}\""
    /\ Last(stdout).arg = x

\* build_domain returned None for the primary token: no probe succeeded
PrimaryUnresolved == primary.kind = "return" /\ primary.value = None

\* C3 as stated: when no probe succeeds for the primary token (and the user
\* does not interrupt), the failure reported names the prefix-stripped host,
\* and nothing is spawned.
C3_FailureNamesStrippedHost ==
    (pc = "exit" /\ PrimaryUnresolved /\ ~interrupted) =>
        /\ FailureNames(primary.host)
        /\ run_calls = <<>>

\* C4: in a run the user does not interrupt, the exit status mirrors the
\* child's when the child ran, and is non-zero when resolution of the host
\* failed.
C4_ExitStatusReflectsOutcome ==
    (pc = "exit" /\ ~interrupted) =>
        /\ returncode # -1 => exit_status = returncode
        /\ PrimaryUnresolved => exit_status # 0

JumpWanted == args.jump \/ args.jumphost \notin {None, <<>>}

\* C5: with the jump flag or an override set, a failed resolution of the jump
\* host (override first, else configured) ends ssh() with the construction
\* of the vector aborted (the list left as it was before the jump-host step,
\* never finished) and nothing spawned, the failure printed naming the jump
\* host; a successful one is followed, unless Ctrl-C stops ssh() first, by a
\* finished vector, which holds -J and the resolved jump host, adjacent.
\* Where the resolution did not end (Ctrl-C, or an exception escaping
\* build_domain), no vector is finished and nothing is spawned either.
C5_JumpHostFailureAborts ==
    (SshRan /\ JumpWanted) =>
        /\ jump.kind \in {"none", "raise"} =>
               /\ ~built
               /\ run_calls = <<>>
               /\ Positions(openssh_command, STR_J) = {}
               /\ Positions(openssh_command, domain) = {}
        /\ jump.kind # "none" => jump.host = WantedJumpHost
        /\ (jump.kind = "return" /\ jump.value = None) =>
              /\ ~built
              /\ openssh_command = ListBeforeJump(args)
              /\ run_calls = <<>>
              /\ pc = "exit"
              /\ Last(stdout).text = "Failed to find valid FQDN for jumphost \"{}\""
              /\ Last(stdout).arg = WantedJumpHost
        /\ (jump.kind = "return" /\ jump.value # None) =>
              /\ jump.value \in {WantedJumpHost}
                   \cup {WantedJumpHost \o <<".">> \o config.domains[i] :
                           i \in 1..Len(config.domains)}
              /\ ~interrupted => built
              /\ built =>
                   \E i \in 1..(Len(openssh_command) - 1) :
                     openssh_command[i] = STR_J /\ openssh_command[i + 1] = jump.value

\* C5 witness: an override that does not resolve, although the configured
\* jump host would
C5_Witness ==
    /\ SshRan
    /\ ~interrupted
    /\ args.jumphost = HOST_gw
    /\ NAME_jump_corp \in dns
    /\ jump.kind = "return"
    /\ jump.value = None
    /\ run_calls = <<>>

HasSshpassPrefix(vec) ==
    Len(vec) >= 3 /\ vec[1] = STR_sshpass /\ vec[2] = STR_e /\ vec[3] = STR_ssh

\* C6: a built vector starts with sshpass -e ssh exactly when no jump host is
\* in effect, the settings enable sshpass and the target holds no "@";
\* otherwise it starts with ssh. No vector has both the prefix and -J.
C6_SshpassIffNoJumpNoUser ==
    Built =>
        /\ HasSshpassPrefix(openssh_command)
             <=> (~JumpWanted /\ config.sshpass /\ ~Contains(domain, "@"))
        /\ ~HasSshpassPrefix(openssh_command) => openssh_command[1] = STR_ssh
        /\ Positions(openssh_command, STR_sshpass) \subseteq {1}
        /\ ~(HasSshpassPrefix(openssh_command)
               /\ Positions(openssh_command, STR_J) # {})

\* C6 witness: the prefixed vector was handed to subprocess.run
C6_Witness ==
    /\ Built
    /\ HasSshpassPrefix(openssh_command)
    /\ run_calls = <<openssh_command>>

\* a remote command was given (argparse's None and the empty string are none)
CommandGiven == args.command \notin {None, <<>>}

\* C7: a built vector holds -D <tunnel port> exactly when the tunnel flag is
\* set and no remote command is given, and then before the target; a remote
\* command is the last element, right after the target, and -J stays.
C7_TunnelIffNoCommand ==
    Built =>
        LET n == Len(openssh_command) IN
        /\ Positions(openssh_command, STR_D) # {} <=> (args.tunnel /\ ~CommandGiven)
        /\ \A i \in Positions(openssh_command, STR_D) :
               /\ i < n
               /\ openssh_command[i + 1] = config.tunnel_port
               /\ \E j \in (i + 2)..n : openssh_command[j] = domain
        /\ CommandGiven =>
               /\ openssh_command[n] = args.command
               /\ openssh_command[n - 1] = domain
        /\ ~CommandGiven => openssh_command[n] = domain
        /\ JumpWanted => Positions(openssh_command, STR_J) # {}

\* C7 witness: jump flag, tunnel flag and a command together
C7_Witness ==
    /\ Built
    /\ args.jump
    /\ args.tunnel
    /\ CommandGiven
    /\ Last(openssh_command) = args.command
    /\ Positions(openssh_command, STR_D) = {}

\* C8: every call of build_domain ends returning a target or returning the
\* failure (None); no exception escapes it.
C8_ResolvedOrFailure ==
    \A c \in Calls : c.bd.kind = "return"

\* the text after the last "@" of a token
RECURSIVE AfterLastAt(_)
AfterLastAt(token) ==
    IF Contains(token, "@") THEN AfterLastAt(SliceFrom(token, Find(token, "@") + 1))
    ELSE token

\* C9: the host build_domain probes is the text after the last "@" of the
\* token.
C9_HostAfterLastAt ==
    \A c \in Calls : c.bd.host = AfterLastAt(c.token)

\* -v, -vv, ...
IsVerbosityFlag(x) ==
    Len(x) >= 2 /\ x[1] = "-" /\ \A i \in 2..Len(x) : x[i] = "v"

Min(a, b) == IF a < b THEN a ELSE b

\* C10: a built vector holds a verbosity flag only for a count above 0, then
\* exactly one, with min(count, 3) times "v".
C10_VerbosityClamped ==
    Built =>
        LET flags == {i \in 1..Len(openssh_command) :
                        IsVerbosityFlag(openssh_command[i])} IN
        /\ args.v = 0 => flags = {}
        /\ args.v > 0 =>
               /\ Cardinality(flags) = 1
               /\ \A i \in flags : Len(openssh_command[i]) = 1 + Min(args.v, 3)

\* C10 witness: a count of 100 gave -vvv
C10_Witness ==
    /\ Built
    /\ args.v = 100
    /\ Positions(openssh_command, <<"-", "v", "v", "v">>) # {}

====
